---- MODULE Spec2Model ----
(***************************************************************************)
(* The virtual-circuit request/response client (src/tibrvvcclient.c).      *)
(*                                                                         *)
(* Two threads of the client process are modelled: the main thread (setup, *)
(* burst generator, wait on wait_queue, report, teardown) and the response *)
(* dispatcher thread created by tibrvDispatcher_Create on the default      *)
(* queue (serverResponse and, in paced mode, the pubReqMsg timer).  The    *)
(* peer server and the virtual circuit are the environment.                *)
(*                                                                         *)
(* The server src/tibrvserver.c (srv) and the client without virtual       *)
(* circuit src/tibrvclient.c (cli) follow, each with a specification of    *)
(* its own in which the other programs are not started.                    *)
(***************************************************************************)
EXTENDS Integers, Sequences, FiniteSets, TLC

\* Largest request count <number of requests> tried on the command line.
MaxRequests == 3

\* Largest status frequency (-status <#msgs>) tried on the command line.
MaxStatusFrq == 2

\* the most messages clients send to the server in a run
MaxArrivals == 3

\* the subjects of the requests and of their replies
REQUEST_SUBJECT == "TIBRV.VC.WORK"

RESPONSE_SUBJECT == "TIBRV.VC.REPLY"

VARIABLES
    requests,     \* static tibrv_u32 requests (set from argv before tibrv_Open)
    interval,     \* static tibrv_f64 interval: 0 = burst mode, 1 = paced mode
    status_frq,   \* static unsigned int status_frq: 0 = no status lines
    env,          \* what the environment does in this run (fixed at start)
    pc,           \* position of the main thread
    rpc,          \* position of the response dispatcher thread
    vc,           \* vcRec: vc_state, msgs_in, msgs_out
    send_subject, \* send subject of the shared message client_request
    reply_subject, \* reply subject of client_request
    live,         \* handles that exist (created and not destroyed)
    link,         \* the virtual circuit: "none", "up" or "down"
    inflight,     \* requests the server has received and not yet answered
    respQ,        \* responses queued on TIBRV_DEFAULT_QUEUE for vc_msg_event
    wait_queue,   \* events queued on wait_queue, oldest first
    exit_status,  \* static int exit_status
    proc,         \* the process: calls of exit(), exit code, terminated
    obs,          \* what an observer of the run has seen so far
    srv,          \* tibrvserver.c: the state of the server program
    cli           \* tibrvclient.c: the state of the client without circuit

\* the variables of tibrvvcclient.c and of tibrvclient.c
client == <<requests, interval, status_frq, env, pc, rpc, vc, send_subject,
            reply_subject, live, link,
            inflight, respQ, wait_queue, exit_status, proc, obs, cli>>

vars == <<client, srv>>

\* the variables no step of the client changes after argument parsing: its
\* parameters, and the state of the other programs
config == <<requests, interval, status_frq, env, srv, cli>>

None == "none"

\* tibrvvcclient.c before tibrv_Open
ClientStart ==
    /\ pc = "tibrv_Open"
    /\ rpc = None
    /\ vc = [vc_state |-> None, msgs_in |-> 0, msgs_out |-> 0]
    /\ send_subject = None
    /\ reply_subject = None
    /\ live = {}
    /\ link = None
    /\ inflight = 0
    /\ respQ = 0
    /\ wait_queue = <<>>
    /\ exit_status = 1
    /\ proc = [exitCalls |-> 0, exit_code |-> -1, terminated |-> FALSE]
    /\ obs = [sentinel_sr   |-> 0,      \* allDone sends made by serverResponse
              sentinel_disc |-> 0,      \* allDone sends made by disconnectedVcCallback
              vc_sends      |-> 0,      \* tibrvTransport_Send calls on vc_transport
              late_sends    |-> 0,      \* ... of which with vc_state = disconnected
              reports       |-> 0,      \* run statistics reports printed
              rate_printed  |-> FALSE,  \* the report printed the effective rate
              report_in     |-> -1,     \* msgs_in as read by the report (-1: none yet)
              unblocked     |-> [msgs_in |-> -1, msgs_out |-> -1],
                                        \* counters when tibrvQueue_Dispatch returned
              monitor_fired |-> FALSE,  \* disconnectedVcCallback has run
              setup_failed  |-> FALSE,  \* a setup call returned an error
              gen_status    |-> <<>>,   \* msgs_out of the generator's status lines
              col_status    |-> <<>>,   \* msgs_in of the collector's status lines
              in_when_sent  |-> -1,     \* msgs_in when msgs_out reached requests
              sr_allDone    |-> <<>>,   \* msgs_in at serverResponse's calls of allDone
              dispatched    |-> <<>>,   \* events dispatched from wait_queue
              at_disconnect |-> [msgs_in |-> -1, msgs_out |-> -1],
                                        \* counts logged by disconnectedVcCallback
              reported      |-> [msgs_in |-> -1, msgs_out |-> -1],
                                        \* counts printed by the report
              discovery     |-> [sent |-> 0, failed |-> FALSE],
                                        \* tibrvTransport_SendRequest calls
              vc_attempts   |-> 0,      \* tibrvTransport_CreateConnectVc calls
              wait_failed   |-> FALSE,  \* WaitForVcConnection returned an error
              timer         |-> [fires |-> 0, idle |-> 0, cancelled |-> FALSE],
                                        \* pubReqMsg: firings, firings that found
                                        \* msgs_out >= requests, timer destroyed
              sr_calls      |-> 0,      \* invocations of serverResponse
              writers       |-> [msgs_in |-> {}, msgs_out |-> {}],
                                        \* the threads that have written a counter
              created       |-> {},     \* what main's setup steps have created
              first_send_made |-> {},   \* ... by the first send on vc_transport
              vc_destroys   |-> <<>>,   \* the threads that destroyed vc_transport
              vc_subjects   |-> {},     \* send subjects of the sends on vc_transport
              vc_replyto    |-> {},     \* their reply subjects
              send_fail     |-> [sends |-> -1, msgs_out |-> -1]]
                                        \* vc_sends and msgs_out at the first
                                        \* failed send on vc_transport

\* tibrvserver.c not started
ServerOff == [pc |-> None]

\* tibrvclient.c not started
RvClientOff == [pc |-> None]

(***************************************************************************)
(* Initial state: command line parsed (requests, interval), statics at     *)
(* their initialisers, nothing created yet.                                *)
(*   env.faults   - library calls may return an error status               *)
(*   env.replies  - the server answers the requests it receives            *)
(*   env.drops    - the virtual circuit may get disconnected               *)
(***************************************************************************)
Init ==
    /\ requests \in 0..MaxRequests
    /\ interval \in {0, 1}
    /\ status_frq \in 0..MaxStatusFrq
    /\ env \in [faults : BOOLEAN, replies : BOOLEAN, drops : BOOLEAN]
    /\ ClientStart
    /\ srv = ServerOff
    /\ cli = RvClientOff

\* The status a library call may return: TRUE is TIBRV_OK.
Status == IF env.faults THEN BOOLEAN ELSE {TRUE}

Running == ~proc.terminated

\* exit(code) called by a thread.  The process goes on until Terminate; a
\* second call of exit() while the first is in progress is undefined
\* behaviour, so either code may be the one the process ends with.
CallExit(code) ==
    \E c \in (IF proc.exitCalls = 0 THEN {code} ELSE {code, proc.exit_code}) :
        proc' = [proc EXCEPT !.exitCalls = @ + 1, !.exit_code = c]

\* A setup step of main: the call returns OK and main goes on to `next`
\* (creating `made`), or it returns an error and main calls exit(1).
SetupStep(here, next, made) ==
    /\ Running
    /\ pc = here
    /\ \E ok \in Status :
        IF ok
        THEN /\ pc' = next
             /\ live' = live \cup made
             /\ obs' = [obs EXCEPT !.created = @ \cup made]
             /\ UNCHANGED proc
        ELSE /\ pc' = "in_exit"
             /\ CallExit(1)
             /\ obs' = [obs EXCEPT !.setup_failed = TRUE]
             /\ UNCHANGED live

(***************************************************************************)
(* main: setup.                                                            *)
(***************************************************************************)
main_tibrv_Open ==
    /\ SetupStep("tibrv_Open", "tibrvTransport_Create", {"tibrv"})
    /\ UNCHANGED <<config, rpc, vc, send_subject, reply_subject, link, inflight, respQ,
                   wait_queue, exit_status>>

main_tibrvTransport_Create ==
    /\ SetupStep("tibrvTransport_Create", "vc_malloc", {"transport"})
    /\ UNCHANGED <<config, rpc, vc, send_subject, reply_subject, link, inflight, respQ,
                   wait_queue, exit_status>>

\* vc = malloc(sizeof(vcRec)); vc_state = initializing; msgs_in = msgs_out = 0
main_vc_malloc ==
    /\ Running
    /\ pc = "vc_malloc"
    /\ vc' = [vc_state |-> "initializing", msgs_in |-> 0, msgs_out |-> 0]
    /\ pc' = "search_request"
    /\ UNCHANGED <<config, rpc, send_subject, reply_subject, live, link, inflight, respQ,
                   wait_queue, exit_status, proc, obs>>

\* createServerConnection: tibrvMsg_Create and tibrvMsg_SetSendSubject of the
\* search request; an error is returned to main, which calls exit(1).
createServerConnection_search_request ==
    /\ SetupStep("search_request", "SendRequest", {})
    /\ UNCHANGED <<config, rpc, vc, send_subject, reply_subject, link, inflight, respQ,
                   wait_queue, exit_status>>

\* createServerConnection: tibrvTransport_SendRequest(search_timeout); a
\* timeout (no server) or a transport error is returned to main.
SendRequest(abort) ==
    /\ Running
    /\ pc = "SendRequest"
    /\ \E ok \in Status :
        /\ obs' = [obs EXCEPT !.discovery = [sent |-> @.sent + 1,
                                             failed |-> ~ok],
                              !.setup_failed = @ \/ ~ok]
        /\ IF ok \/ ~abort
           THEN pc' = "GetReplySubject" /\ UNCHANGED proc
           ELSE pc' = "in_exit" /\ CallExit(1)
    /\ UNCHANGED <<config, rpc, vc, send_subject, reply_subject, live, link, inflight, respQ,
                   wait_queue, exit_status>>

\* mutant: the status of tibrvTransport_SendRequest is not tested
createServerConnection_SendRequest_unchecked == SendRequest(FALSE)

createServerConnection_SendRequest == SendRequest(TRUE)

createServerConnection_GetReplySubject ==
    /\ SetupStep("GetReplySubject", "CreateConnectVc", {})
    /\ UNCHANGED <<config, rpc, vc, send_subject, reply_subject, link, inflight, respQ,
                   wait_queue, exit_status>>

\* createServerConnection: tibrvTransport_CreateConnectVc.  Its status is
\* overwritten by the next call without being tested.
createServerConnection_CreateConnectVc ==
    /\ Running
    /\ pc = "CreateConnectVc"
    /\ pc' = "WaitForVcConnection"
    /\ \E ok \in Status :
        IF ok
        THEN /\ live' = live \cup {"vc_transport"}
             /\ link' = "up"
             /\ obs' = [obs EXCEPT !.vc_attempts = @ + 1]
        ELSE /\ obs' = [obs EXCEPT !.vc_attempts = @ + 1,
                                   !.setup_failed = TRUE]
             /\ UNCHANGED <<live, link>>
    /\ UNCHANGED <<config, rpc, vc, send_subject, reply_subject, inflight, respQ, wait_queue,
                   exit_status, proc>>

\* createServerConnection: tibrvTransport_WaitForVcConnection and the rest;
\* a non-OK status is returned to main, which calls exit(1).  When
\* CreateConnectVc failed, *vc_transport is the uninitialised field of
\* the malloc'ed record, and the call may return anything.
WaitForVcConnection(abort) ==
    /\ Running
    /\ pc = "WaitForVcConnection"
    /\ \E ok \in (IF "vc_transport" \in live THEN Status ELSE BOOLEAN) :
        /\ obs' = [obs EXCEPT !.wait_failed = ~ok,
                              !.setup_failed = @ \/ ~ok]
        /\ IF ok \/ ~abort
           THEN pc' = "search_reply_Destroy" /\ UNCHANGED proc
           ELSE pc' = "in_exit" /\ CallExit(1)
    /\ UNCHANGED <<config, rpc, vc, send_subject, reply_subject, live, link, inflight, respQ,
                   wait_queue, exit_status>>

\* mutant: the status of tibrvTransport_WaitForVcConnection is not tested
createServerConnection_WaitForVcConnection_unchecked ==
    WaitForVcConnection(FALSE)

createServerConnection_WaitForVcConnection == WaitForVcConnection(TRUE)

createServerConnection_search_reply_Destroy ==
    /\ SetupStep("search_reply_Destroy", "CreateListener_vc_msg_event", {})
    /\ UNCHANGED <<config, rpc, vc, send_subject, reply_subject, link, inflight, respQ,
                   wait_queue, exit_status>>

main_CreateListener_vc_msg_event ==
    /\ SetupStep("CreateListener_vc_msg_event", "CreateListener_wait_event",
                 {"vc_msg_event"})
    /\ UNCHANGED <<config, rpc, vc, send_subject, reply_subject, link, inflight, respQ,
                   wait_queue, exit_status>>

\* tibrvQueue_Create(&wait_queue), whose status is overwritten, then the
\* listener for TEST.COMPLETED on it; without the queue the listener cannot
\* be created.
main_CreateListener_wait_event ==
    /\ SetupStep("CreateListener_wait_event", "CreateListener_vc_disconnect_event",
                 {"wait_queue", "wait_event"})
    /\ UNCHANGED <<config, rpc, vc, send_subject, reply_subject, link, inflight, respQ,
                   wait_queue, exit_status>>

CreateListener_vc_disconnect_event(made) ==
    /\ SetupStep("CreateListener_vc_disconnect_event", "tibrvDispatcher_Create",
                 made)
    /\ UNCHANGED <<config, rpc, vc, send_subject, reply_subject, link,
                   inflight, respQ, wait_queue, exit_status>>

\* mutant: the Session Monitor's listener is not created
main_CreateListener_vc_disconnect_event_left_out ==
    CreateListener_vc_disconnect_event({})

main_CreateListener_vc_disconnect_event ==
    CreateListener_vc_disconnect_event({"vc_disconnect_event"})

\* tibrvDispatcher_Create(&response_thread, TIBRV_DEFAULT_QUEUE): the
\* response dispatcher thread starts.
main_tibrvDispatcher_Create ==
    /\ SetupStep("tibrvDispatcher_Create", "tibrvMsg_Create", {"response_thread"})
    /\ rpc' = IF "response_thread" \in live' THEN "idle" ELSE rpc
    /\ UNCHANGED <<config, vc, send_subject, reply_subject, link, inflight, respQ,
                   wait_queue, exit_status>>

main_tibrvMsg_Create ==
    /\ SetupStep("tibrvMsg_Create", "SetSendSubject", {"client_request"})
    /\ UNCHANGED <<config, rpc, vc, send_subject, reply_subject, link, inflight, respQ,
                   wait_queue, exit_status>>

\* tibrvMsg_SetSendSubject(client_request, request_subject)
main_SetSendSubject ==
    /\ SetupStep("SetSendSubject", "SetReplySubject", {})
    /\ send_subject' = IF pc' = "SetReplySubject" THEN REQUEST_SUBJECT
                       ELSE send_subject
    /\ UNCHANGED <<config, reply_subject, rpc, vc, link, inflight, respQ, wait_queue,
                   exit_status>>

\* tibrvMsg_SetReplySubject(client_request, response_subject), then the
\* start of the test: the burst loop when interval == 0, else the timer.
SetReplySubject(subject) ==
    /\ SetupStep("SetReplySubject",
                 IF interval = 0 THEN "burst" ELSE "CreateTimer", {})
    /\ reply_subject' = IF pc' = "in_exit" THEN reply_subject ELSE subject
    /\ UNCHANGED <<config, rpc, vc, send_subject, link, inflight, respQ,
                   wait_queue, exit_status>>

\* mutant: the requests ask for their replies on an inbox
main_SetReplySubject_inbox == SetReplySubject("_INBOX")

main_SetReplySubject == SetReplySubject(RESPONSE_SUBJECT)

(***************************************************************************)
(* Sends.                                                                  *)
(***************************************************************************)
\* The status tibrvTransport_Send(vc->vc_transport, ...) may return: an
\* error once the transport has been destroyed, anything on a handle that
\* was never created or on a disconnected circuit.
VcSendStatus ==
    IF link = None THEN BOOLEAN
    ELSE IF "vc_transport" \notin live THEN {FALSE}
    ELSE IF link = "up" THEN Status
    ELSE BOOLEAN

\* What the write of `counter` by `thread` leaves in the observations o.
ObsWrote(o, counter, thread) ==
    [o EXCEPT !.writers[counter] = @ \cup {thread}]

\* What a call of tibrvTransport_Send on vc_transport that returns `ok`
\* leaves in the observations o.
ObsVcSend(o, ok) ==
    [o EXCEPT !.vc_sends = @ + 1,
              !.first_send_made = IF o.vc_sends = 0 THEN o.created ELSE @,
              !.vc_subjects = @ \cup {send_subject},
              !.vc_replyto = @ \cup {reply_subject},
              !.late_sends = IF vc.vc_state = "disconnected" THEN @ + 1 ELSE @,
              !.send_fail = IF ~ok /\ @.sends = -1
                            THEN [sends |-> o.vc_sends + 1, msgs_out |-> vc.msgs_out]
                            ELSE @]

\* allDone, first statement: tibrvMsg_SetSendSubject(client_request,
\* "TEST.COMPLETED") on the message both threads share.
\* mutant: the message keeps the subject it has
allDone_SetSendSubject_skipped ==
    UNCHANGED <<send_subject, reply_subject>>

allDone_SetSendSubject ==
    /\ send_subject' = "TEST.COMPLETED"
    /\ UNCHANGED reply_subject

\* allDone, second statement: tibrvTransport_Send(TIBRV_PROCESS_TRANSPORT,
\* client_request); the status is not looked at.  The message reaches the
\* listener wait_event on wait_queue when its subject is TEST.COMPLETED.
allDone_Send ==
    \E ok \in (IF "tibrv" \in live THEN Status ELSE {FALSE}) :
        wait_queue' =
            IF ok /\ send_subject = "TEST.COMPLETED" /\ "wait_event" \in live
            THEN Append(wait_queue, "sentinel")
            ELSE wait_queue

\* The status display test: status_frq > 0 and
\* (count / status_frq) * status_frq == count.
\* mutant: the line for the last count is left out
StatusDue_but_last(count) ==
    /\ status_frq > 0
    /\ (count \div status_frq) * status_frq = count
    /\ count < requests

StatusDue(count) ==
    /\ status_frq > 0
    /\ (count \div status_frq) * status_frq = count

\* What the generator's status display leaves in the observations o when
\* msgs_out is `out`: the status line when one is due, and msgs_in at the
\* moment the last request has been counted.
ObsGenStatus(o, out) ==
    [o EXCEPT !.gen_status = IF StatusDue(out) THEN Append(@, out) ELSE @,
              !.in_when_sent = IF out = requests /\ @ = -1
                               THEN vc.msgs_in ELSE @]

(***************************************************************************)
(* Request Generator, burst mode: the loop of main (interval == 0).  The   *)
(* loop index i equals vc->msgs_out throughout: both start at 0 and are    *)
(* incremented once per iteration.                                         *)
(***************************************************************************)
\* One iteration up to the return of tibrvTransport_Send, while i < limit;
\* a failed send calls exit(1) when `abort`.
BurstSend(limit, abort) ==
    /\ Running
    /\ pc = "burst"
    /\ vc.msgs_out < limit
    /\ \E msg_ok \in Status :
        IF ~msg_ok
        THEN \* set_msg_data: tibrvMsg_UpdateU32 failed, exit(1)
             /\ pc' = "in_exit"
             /\ CallExit(1)
             /\ UNCHANGED <<inflight, obs>>
        ELSE \E ok \in VcSendStatus :
             /\ obs' = ObsVcSend(obs, ok)
             /\ IF ok
                THEN /\ pc' = "burst_count"
                     /\ inflight' = IF link = "up" THEN inflight + 1 ELSE inflight
                     /\ UNCHANGED proc
                ELSE /\ IF abort
                        THEN pc' = "in_exit" /\ CallExit(1)
                        ELSE UNCHANGED <<pc, proc>>
                     /\ UNCHANGED inflight
    /\ UNCHANGED <<config, rpc, vc, send_subject, reply_subject, live, link, respQ, wait_queue,
                   exit_status>>

\* mutants: the loop runs once more; a failed send is tried again
main_burst_send_off_by_one == BurstSend(requests + 1, TRUE)

main_burst_send_retry == BurstSend(requests, FALSE)

\* mutant: the loop does not stop at the number of requests asked for
main_burst_send_unbounded == BurstSend(MaxRequests + 1, TRUE)

\* for (i = 0; i < requests; i++) { set_msg_data(); tibrvTransport_Send; ...
main_burst_send == BurstSend(requests, TRUE)

\* ... vc->msgs_out++; status display }
BurstCount(step) ==
    /\ Running
    /\ pc = "burst_count"
    /\ vc' = [vc EXCEPT !.msgs_out = @ + step]
    /\ obs' = ObsWrote(ObsGenStatus(obs, vc'.msgs_out), "msgs_out", "main")
    /\ pc' = "burst"
    /\ UNCHANGED <<config, rpc, send_subject, reply_subject, live, link, inflight, respQ,
                   wait_queue, exit_status, proc>>

\* mutant: a request is counted twice
main_burst_count_twice == BurstCount(2)

main_burst_count == BurstCount(1)

\* i == requests: the loop ends and main goes to wait on wait_queue.
BurstDone(next) ==
    /\ Running
    /\ pc = "burst"
    /\ ~(vc.msgs_out < requests)
    /\ pc' = next
    /\ UNCHANGED <<config, rpc, vc, send_subject, reply_subject, live, link, inflight, respQ,
                   wait_queue, exit_status, proc, obs>>

\* mutant: main does not wait on wait_queue
main_burst_done_no_wait == BurstDone("report")

\* mutant: main leaves the loop for the wait at any count
main_burst_done_early ==
    /\ Running
    /\ pc = "burst"
    /\ pc' = "wait"
    /\ UNCHANGED <<config, rpc, vc, send_subject, reply_subject, live, link,
                   inflight, respQ, wait_queue, exit_status, proc, obs>>

main_burst_done == BurstDone("wait")

(***************************************************************************)
(* Request Generator, paced mode: tibrvEvent_CreateTimer on the default    *)
(* queue; pubReqMsg runs on the response dispatcher thread.                *)
(***************************************************************************)
main_CreateTimer ==
    /\ SetupStep("CreateTimer", "wait", {"timer_event"})
    /\ UNCHANGED <<config, rpc, vc, send_subject, reply_subject, link, inflight, respQ,
                   wait_queue, exit_status>>

\* What a firing of the timer callback leaves in the observations o:
\* `idle` when it found nothing to send, `cancel` when it destroys the timer.
ObsFiring(o, idle, cancel) ==
    [o EXCEPT !.timer = [fires |-> @.fires + 1,
                         idle |-> IF idle THEN @.idle + 1 ELSE @.idle,
                         cancelled |-> @.cancelled \/ cancel]]

\* One firing of the timer callback; it destroys its timer when msgs_out
\* is cancelAt.
PubReqMsg(cancelAt) ==
    /\ Running
    /\ rpc = "idle"
    /\ {"response_thread", "timer_event"} \subseteq live
    /\ IF vc.msgs_out < requests
       THEN \E msg_ok \in Status :
            IF ~msg_ok
            THEN /\ rpc' = "in_exit"
                 /\ CallExit(1)
                 /\ obs' = ObsFiring(obs, FALSE, FALSE)
                 /\ UNCHANGED <<vc, inflight, live>>
            ELSE \E ok \in VcSendStatus :
                 IF ok
                 THEN /\ vc' = [vc EXCEPT !.msgs_out = @ + 1]
                      /\ inflight' = IF link = "up" THEN inflight + 1
                                     ELSE inflight
                      /\ obs' = ObsWrote(
                                    ObsFiring(
                                      ObsGenStatus(ObsVcSend(obs, TRUE),
                                                   vc'.msgs_out),
                                      FALSE, vc'.msgs_out = cancelAt),
                                    "msgs_out", "response_thread")
                      \* msgs_out == requests: tibrvEvent_Destroy(event)
                      /\ live' = IF vc'.msgs_out = cancelAt
                                 THEN live \ {"timer_event"} ELSE live
                      /\ UNCHANGED <<rpc, proc>>
                 ELSE /\ rpc' = "in_exit"
                      /\ CallExit(1)
                      /\ obs' = ObsFiring(ObsVcSend(obs, FALSE), FALSE, FALSE)
                      /\ UNCHANGED <<vc, inflight, live>>
       ELSE /\ obs' = ObsFiring(ObsGenStatus(obs, vc.msgs_out),
                                TRUE, vc.msgs_out = cancelAt)
            /\ live' = IF vc.msgs_out = cancelAt
                       THEN live \ {"timer_event"} ELSE live
            /\ UNCHANGED <<rpc, vc, inflight, proc>>
    /\ UNCHANGED <<config, pc, send_subject, reply_subject, link, respQ, wait_queue,
                   exit_status>>

\* mutant: the timer is destroyed one count too late, that is never
pubReqMsg_cancel_late == PubReqMsg(requests + 1)

\* if (vc->msgs_out < requests) {...} ... if (vc->msgs_out == requests)
\* tibrvEvent_Destroy(event);
pubReqMsg == PubReqMsg(requests)

(***************************************************************************)
(* Response Collector: serverResponse on the response dispatcher thread.   *)
(***************************************************************************)
\* vc->msgs_in++
serverResponse ==
    /\ Running
    /\ rpc = "idle"
    /\ {"response_thread", "vc_msg_event"} \subseteq live
    /\ respQ > 0
    /\ respQ' = respQ - 1
    /\ vc' = [vc EXCEPT !.msgs_in = @ + 1]
    /\ obs' = ObsWrote([obs EXCEPT !.sr_calls = @ + 1],
                       "msgs_in", "response_thread")
    /\ rpc' = "serverResponse_tests"
    /\ UNCHANGED <<config, pc, send_subject, reply_subject, live, link,
                   inflight, wait_queue, exit_status, proc>>

\* The collector's status display test:
\* vc->msgs_out == requests && status_frq > 0 && msgs_in is a multiple.
CollectorStatusDue_while_sending ==
    StatusDue(vc.msgs_in)

CollectorStatusDue ==
    vc.msgs_out = requests /\ StatusDue(vc.msgs_in)

\* The rest of serverResponse: the status display, then allDone() when
\* msgs_in >= target.
ServerResponseTests(target) ==
    /\ Running
    /\ rpc = "serverResponse_tests"
    /\ obs' = [obs EXCEPT !.col_status = IF CollectorStatusDue
                                         THEN Append(@, vc.msgs_in) ELSE @,
                          !.sr_allDone = IF vc.msgs_in >= target
                                         THEN Append(@, vc.msgs_in) ELSE @]
    /\ rpc' = IF vc.msgs_in >= target THEN "allDone_SetSendSubject" ELSE "idle"
    /\ UNCHANGED <<config, pc, vc, send_subject, reply_subject, live, link, inflight, respQ,
                   wait_queue, exit_status, proc>>

\* mutant: completion tested against one response less
serverResponse_tests_early == ServerResponseTests(requests - 1)

\* if (vc->msgs_out == requests && status_frq > 0) {...}
\* if (vc->msgs_in >= requests) allDone();
serverResponse_tests == ServerResponseTests(requests)

serverResponse_allDone_SetSendSubject ==
    /\ Running
    /\ rpc = "allDone_SetSendSubject"
    /\ allDone_SetSendSubject
    /\ rpc' = "allDone_Send"
    /\ UNCHANGED <<config, pc, vc, live, link, inflight, respQ, wait_queue,
                   exit_status, proc, obs>>

serverResponse_allDone_Send ==
    /\ Running
    /\ rpc = "allDone_Send"
    /\ allDone_Send
    /\ obs' = [obs EXCEPT !.sentinel_sr = @ + 1]
    /\ rpc' = "idle"
    /\ UNCHANGED <<config, pc, vc, send_subject, reply_subject, live, link, inflight, respQ,
                   exit_status, proc>>

(***************************************************************************)
(* Completion Coordinator: main blocks in tibrvQueue_Dispatch(wait_queue), *)
(* which dispatches one event: the sentinel (testcompletedCB) or the       *)
(* disconnect advisory (disconnectedVcCallback, Session Monitor).          *)
(***************************************************************************)
Counters == [msgs_in |-> vc.msgs_in, msgs_out |-> vc.msgs_out]

testcompletedCB ==
    /\ Running
    /\ pc = "wait"
    /\ wait_queue # <<>>
    /\ Head(wait_queue) = "sentinel"
    /\ wait_queue' = Tail(wait_queue)
    /\ pc' = "report"
    /\ obs' = [obs EXCEPT !.unblocked = Counters,
                          !.dispatched = Append(@, "sentinel")]
    /\ UNCHANGED <<config, rpc, vc, send_subject, reply_subject, live, link, inflight, respQ,
                   exit_status, proc>>

\* The callback up to its call of allDone: the counts are logged and
\* `state` is written to vc_state.
DisconnectedVcCallback(state) ==
    /\ Running
    /\ pc = "wait"
    /\ wait_queue # <<>>
    /\ Head(wait_queue) = "advisory"
    /\ wait_queue' = Tail(wait_queue)
    /\ vc' = [vc EXCEPT !.vc_state = state]
    /\ obs' = [obs EXCEPT !.monitor_fired = TRUE,
                          !.at_disconnect = Counters,
                          !.dispatched = Append(@, "advisory")]
    /\ pc' = "allDone_SetSendSubject"
    /\ UNCHANGED <<config, rpc, send_subject, reply_subject, live, link, inflight, respQ,
                   exit_status, proc>>

\* mutant: the advisory is dispatched behind the queued responses
disconnectedVcCallback_after_responses ==
    /\ respQ = 0
    /\ rpc = "idle"
    /\ DisconnectedVcCallback("disconnected")

\* mutant: the callback records the circuit as connected
disconnectedVcCallback_connected == DisconnectedVcCallback("connected")

\* fprintf(... vc->msgs_out, vc->msgs_in); vc->vc_state = disconnected;
disconnectedVcCallback == DisconnectedVcCallback("disconnected")

disconnectedVcCallback_allDone_SetSendSubject ==
    /\ Running
    /\ pc = "allDone_SetSendSubject"
    /\ allDone_SetSendSubject
    /\ pc' = "allDone_Send"
    /\ UNCHANGED <<config, rpc, vc, live, link, inflight, respQ, wait_queue,
                   exit_status, proc, obs>>

\* allDone sends, the callback returns and so does tibrvQueue_Dispatch.
disconnectedVcCallback_allDone_Send ==
    /\ Running
    /\ pc = "allDone_Send"
    /\ allDone_Send
    /\ obs' = [obs EXCEPT !.sentinel_disc = @ + 1, !.unblocked = Counters]
    /\ pc' = "report"
    /\ UNCHANGED <<config, rpc, vc, send_subject, reply_subject, live, link, inflight, respQ,
                   exit_status, proc>>

(***************************************************************************)
(* Statistics Reporter and teardown (main).                                *)
(***************************************************************************)
\* The report: `all` is the test that decides between the two branches,
\* `next` where main goes on.
Report(all, next) ==
    /\ Running
    /\ pc = "report"
    /\ exit_status' = IF all THEN 0 ELSE 1
    /\ obs' = [obs EXCEPT !.reports = @ + 1,
                          !.rate_printed = all,
                          !.report_in = vc.msgs_in,
                          !.reported = [msgs_in |-> vc.msgs_in,
                                        msgs_out |-> IF all THEN requests
                                                     ELSE vc.msgs_out]]
    /\ pc' = next
    /\ UNCHANGED <<config, rpc, vc, send_subject, reply_subject, live, link, inflight, respQ,
                   wait_queue, proc>>

\* mutants: the test written with > ; the report repeated once
main_report_strict == Report(vc.msgs_in > requests, "Destroy_vc_msg_event")

main_report_again ==
    Report(vc.msgs_in >= requests,
           IF obs.reports = 0 THEN "report" ELSE "Destroy_vc_msg_event")

\* if (vc->msgs_in >= requests) { ...rate...; exit_status = 0; }
\* else { ...counts...; exit_status = 1; }
main_report == Report(vc.msgs_in >= requests, "Destroy_vc_msg_event")

\* One tibrv*_Destroy call of the teardown.
Teardown(here, next, gone) ==
    /\ Running
    /\ pc = here
    /\ pc' = next
    /\ live' = live \ gone

\* tibrvEvent_Destroy(vc->vc_msg_event): queued responses are discarded.
main_Destroy_vc_msg_event ==
    /\ Teardown("Destroy_vc_msg_event", "Destroy_vc_disconnect_event",
                {"vc_msg_event"})
    /\ respQ' = 0
    /\ UNCHANGED <<config, rpc, vc, send_subject, reply_subject, link, inflight, wait_queue,
                   exit_status, proc, obs>>

main_Destroy_vc_disconnect_event ==
    /\ Teardown("Destroy_vc_disconnect_event", "Destroy_vc_transport",
                {"vc_disconnect_event"})
    /\ wait_queue' = SelectSeq(wait_queue, LAMBDA e : e # "advisory")
    /\ UNCHANGED <<config, rpc, vc, send_subject, reply_subject, link, inflight, respQ,
                   exit_status, proc, obs>>

\* tibrvTransport_Destroy(vc->vc_transport): the circuit is closed.
Destroy_vc_transport(next) ==
    /\ Teardown("Destroy_vc_transport", next, {"vc_transport"})
    /\ link' = IF link = "up" THEN "down" ELSE link
    /\ inflight' = 0
    /\ obs' = [obs EXCEPT !.vc_destroys = Append(@, "main")]
    /\ UNCHANGED <<config, rpc, vc, send_subject, reply_subject, respQ,
                   wait_queue, exit_status, proc>>

\* mutant: the call is made a second time
main_Destroy_vc_transport_again ==
    Destroy_vc_transport(IF obs.vc_destroys = <<>> THEN "Destroy_vc_transport"
                         ELSE "tibrvDispatcher_Destroy")

main_Destroy_vc_transport == Destroy_vc_transport("tibrvDispatcher_Destroy")

\* tibrvDispatcher_Destroy(response_thread): no further event is dispatched
\* on the default queue; a callback that is running runs to its end.
main_tibrvDispatcher_Destroy ==
    /\ Teardown("tibrvDispatcher_Destroy", "tibrvQueue_Destroy",
                {"response_thread"})
    /\ UNCHANGED <<config, rpc, vc, send_subject, reply_subject, link, inflight, respQ,
                   wait_queue, exit_status, proc, obs>>

main_tibrvQueue_Destroy ==
    /\ Teardown("tibrvQueue_Destroy", "tibrvTransport_Destroy",
                {"wait_queue", "wait_event"})
    /\ wait_queue' = <<>>
    /\ UNCHANGED <<config, rpc, vc, send_subject, reply_subject, link, inflight, respQ,
                   exit_status, proc, obs>>

main_tibrvTransport_Destroy ==
    /\ Teardown("tibrvTransport_Destroy", "tibrv_Close", {"transport"})
    /\ UNCHANGED <<config, rpc, vc, send_subject, reply_subject, link, inflight, respQ,
                   wait_queue, exit_status, proc, obs>>

main_tibrv_Close ==
    /\ Teardown("tibrv_Close", "exit", {"tibrv"})
    /\ UNCHANGED <<config, rpc, vc, send_subject, reply_subject, link, inflight, respQ,
                   wait_queue, exit_status, proc, obs>>

\* exit(exit_status)
main_exit ==
    /\ Running
    /\ pc = "exit"
    /\ CallExit(exit_status)
    /\ pc' = "in_exit"
    /\ UNCHANGED <<config, rpc, vc, send_subject, reply_subject, live, link, inflight, respQ,
                   wait_queue, exit_status, obs>>

\* The process ends once a thread has called exit().
Terminate ==
    /\ Running
    /\ proc.exitCalls > 0
    /\ proc' = [proc EXCEPT !.terminated = TRUE]
    /\ UNCHANGED <<config, pc, rpc, vc, send_subject, reply_subject, live, link, inflight,
                   respQ, wait_queue, exit_status, obs>>

(***************************************************************************)
(* Environment: the peer server and the virtual circuit.                   *)
(***************************************************************************)
\* The server answers one request it has received; the reply is queued for
\* the listener vc_msg_event on the default queue.
ServerReply ==
    /\ Running
    /\ env.replies
    /\ link = "up"
    /\ inflight > 0
    /\ inflight' = inflight - 1
    /\ respQ' = IF "vc_msg_event" \in live THEN respQ + 1 ELSE respQ
    /\ UNCHANGED <<config, pc, rpc, vc, send_subject, reply_subject, live, link, wait_queue,
                   exit_status, proc, obs>>

\* The circuit is lost: requests not yet answered are lost with it and the
\* advisory _RV.*.SYSTEM.VC.DISCONNECTED is queued for vc_disconnect_event
\* on wait_queue.
VcDisconnect ==
    /\ Running
    /\ env.drops
    /\ link = "up"
    /\ link' = "down"
    /\ inflight' = 0
    /\ wait_queue' = IF "vc_disconnect_event" \in live
                     THEN Append(wait_queue, "advisory") ELSE wait_queue
    /\ UNCHANGED <<config, pc, rpc, vc, send_subject, reply_subject, live, respQ,
                   exit_status, proc, obs>>

(***************************************************************************)
(* The threads and the specifications.                                     *)
(***************************************************************************)
MainThread ==
    \/ main_tibrv_Open
    \/ main_tibrvTransport_Create
    \/ main_vc_malloc
    \/ createServerConnection_search_request
    \/ createServerConnection_SendRequest
    \/ createServerConnection_GetReplySubject
    \/ createServerConnection_CreateConnectVc
    \/ createServerConnection_WaitForVcConnection
    \/ createServerConnection_search_reply_Destroy
    \/ main_CreateListener_vc_msg_event
    \/ main_CreateListener_wait_event
    \/ main_CreateListener_vc_disconnect_event
    \/ main_tibrvDispatcher_Create
    \/ main_tibrvMsg_Create
    \/ main_SetSendSubject
    \/ main_SetReplySubject
    \/ main_burst_send
    \/ main_burst_count
    \/ main_burst_done
    \/ main_CreateTimer
    \/ testcompletedCB
    \/ disconnectedVcCallback
    \/ disconnectedVcCallback_allDone_SetSendSubject
    \/ disconnectedVcCallback_allDone_Send
    \/ main_report
    \/ main_Destroy_vc_msg_event
    \/ main_Destroy_vc_disconnect_event
    \/ main_Destroy_vc_transport
    \/ main_tibrvDispatcher_Destroy
    \/ main_tibrvQueue_Destroy
    \/ main_tibrvTransport_Destroy
    \/ main_tibrv_Close
    \/ main_exit

ResponseThread ==
    \/ pubReqMsg
    \/ serverResponse
    \/ serverResponse_tests
    \/ serverResponse_allDone_SetSendSubject
    \/ serverResponse_allDone_Send

Next ==
    \/ MainThread
    \/ ResponseThread
    \/ Terminate
    \/ ServerReply
    \/ VcDisconnect

Spec == Init /\ [][Next]_vars

\* The scheduler runs every thread that can take a step, the process ends
\* once exit() has been called, and a server that replies does so.
FairSpec ==
    /\ Init
    /\ [][Next]_vars
    /\ WF_vars(MainThread)
    /\ WF_vars(ResponseThread)
    /\ WF_vars(Terminate)
    /\ WF_vars(ServerReply)

(***************************************************************************)
(* tibrvserver.c: one thread, a dispatch loop on TIBRV_DEFAULT_QUEUE.      *)
(*   srv.faults  - library calls may return an error status                *)
(*   srv.new_msg - the reply mode the program is built with                *)
(*   srv.queue   - events queued for searchCallback and requestCallback    *)
(* A tibrv_u32 is a record of two 16-bit halves, hi and lo.                *)
(***************************************************************************)
Half == 2^16

U32(hi, lo) == [hi |-> hi, lo |-> lo]

\* the values of the fields x and y tried
U32Samples == {U32(0, 0), U32(0, 1), U32(0, Half - 1), U32(Half - 1, Half - 1)}

\* mutant: the carry out of the low half is lost
Add32_no_carry(x, y) ==
    U32((x.hi + y.hi) % Half, (x.lo + y.lo) % Half)

\* sum = x + y on tibrv_u32
Add32(x, y) ==
    U32((x.hi + y.hi + ((x.lo + y.lo) \div Half)) % Half, (x.lo + y.lo) % Half)

ServerStart ==
    [pc |-> "tibrv_Open", queue |-> <<>>, requests |-> 0,
     arrivals      |-> 0,       \* messages clients have sent so far
     handled       |-> <<>>,    \* x and y of the requests dispatched
     replies       |-> <<>>,    \* the replies sent by requestCallback
     search_replies |-> 0,      \* the replies sent by searchCallback
     nonok         |-> 0,       \* non-OK returns of tibrvQueue_TimedDispatch
     timed_out     |-> FALSE,   \* ... one of them TIBRV_TIMEOUT
     after_stop    |-> 0,       \* events dispatched after a non-OK return
     exit_code     |-> -1]

ServerInit ==
    /\ requests = 0
    /\ interval = 0
    /\ status_frq = 0
    /\ env = [faults |-> FALSE, replies |-> FALSE, drops |-> FALSE]
    /\ ClientStart
    /\ \E f, n \in BOOLEAN :
          srv = [faults |-> f, new_msg |-> n] @@ ServerStart
    /\ cli = RvClientOff

ServerStatus == IF srv.faults THEN BOOLEAN ELSE {TRUE}

\* exit(code) in the server's only thread
ServerExit(code) ==
    srv' = [srv EXCEPT !.pc = "terminated", !.exit_code = code]

\* A setup step of the server's main: on to `next`, or exit(1).
ServerSetup(here, next) ==
    /\ srv.pc = here
    /\ \E ok \in ServerStatus :
          IF ok THEN srv' = [srv EXCEPT !.pc = next] ELSE ServerExit(1)
    /\ UNCHANGED client

server_main_tibrv_Open ==
    ServerSetup("tibrv_Open", "tibrvTransport_Create")

server_main_tibrvTransport_Create ==
    ServerSetup("tibrvTransport_Create", "CreateListener_search_event")

server_main_CreateListener_search_event ==
    ServerSetup("CreateListener_search_event", "CreateListener_request_event")

\* tibrvTransport_CreateInbox, then the listener on inbox_subject
server_main_CreateListener_request_event ==
    ServerSetup("CreateListener_request_event", "tibrvMsg_Create")

server_main_tibrvMsg_Create ==
    ServerSetup("tibrvMsg_Create", "SetReplySubject")

server_main_SetReplySubject ==
    ServerSetup("SetReplySubject", "TimedDispatch")

\* the positions of main at which the listeners exist
SearchListening ==
    srv.pc \in {"CreateListener_request_event", "tibrvMsg_Create",
                "SetReplySubject", "TimedDispatch"}

RequestListening ==
    srv.pc \in {"tibrvMsg_Create", "SetReplySubject", "TimedDispatch"}

\* A client looks for a server on SEARCH_SUBJECT.
ClientSearch ==
    /\ SearchListening
    /\ srv.arrivals < MaxArrivals
    /\ srv' = [srv EXCEPT !.arrivals = @ + 1,
                          !.queue = Append(@, [kind |-> "search"])]
    /\ UNCHANGED client

\* A client that has the server's search reply sends a request with the
\* fields x and y to inbox_subject.
ClientRequest ==
    /\ RequestListening
    /\ srv.search_replies > 0
    /\ srv.arrivals < MaxArrivals
    /\ \E x, y \in U32Samples :
          srv' = [srv EXCEPT !.arrivals = @ + 1,
                            !.queue = Append(@, [kind |-> "request",
                                                 x |-> x, y |-> y])]
    /\ UNCHANGED client

\* tibrvQueue_TimedDispatch dispatches the oldest event of `kind`
Dispatches(kind) ==
    /\ srv.pc = "TimedDispatch"
    /\ srv.queue # <<>>
    /\ Head(srv.queue).kind = kind

\* what the dispatch of an event leaves in the record r
Dispatched(r) ==
    [r EXCEPT !.queue = Tail(@),
              !.after_stop = IF r.nonok > 0 THEN @ + 1 ELSE @]

server_searchCallback ==
    /\ Dispatches("search")
    /\ \E ok \in ServerStatus :
          srv' = IF ok
                 THEN [Dispatched(srv) EXCEPT !.search_replies = @ + 1]
                 ELSE [Dispatched(srv) EXCEPT !.pc = "terminated",
                                              !.exit_code = 1]
    /\ UNCHANGED client

\* The ways requestCallback ends: at its end; in exit(1) before the reply
\* is sent; with new_msg, in exit(1) after it (tibrvMsg_Destroy failed).
RequestOutcomes ==
    IF ~srv.faults THEN {"returns"}
    ELSE {"returns", "exit_before_reply"}
             \cup (IF srv.new_msg THEN {"exit_after_reply"} ELSE {})

\* requestCallback: sum = x + y in tibrv_u32
server_requestCallback ==
    /\ Dispatches("request")
    /\ \E outcome \in RequestOutcomes :
          LET m == Head(srv.queue)
              got == [Dispatched(srv) EXCEPT
                         !.handled = Append(@, [x |-> m.x, y |-> m.y])]
              sent == [got EXCEPT
                         !.replies = Append(@, [sum |-> Add32(m.x, m.y)])]
          IN  srv' = CASE outcome = "returns" ->
                            [sent EXCEPT !.requests = @ + 1]
                       [] outcome = "exit_before_reply" ->
                            [got EXCEPT !.pc = "terminated", !.exit_code = 1]
                       [] outcome = "exit_after_reply" ->
                            [sent EXCEPT !.pc = "terminated", !.exit_code = 1]
    /\ UNCHANGED client

\* tibrvQueue_TimedDispatch returns a status other than TIBRV_OK and main
\* goes on at `next`.
LoopEnd(timeout, next) ==
    /\ srv.pc = "TimedDispatch"
    /\ srv' = [srv EXCEPT !.nonok = @ + 1,
                          !.timed_out = @ \/ timeout,
                          !.pc = next]
    /\ UNCHANGED client

\* mutant: the loop goes on after a timeout
server_TimedDispatch_timeout_retry ==
    srv.queue = <<>> /\ LoopEnd(TRUE, "TimedDispatch")

\* no event for SERVER_TIMEOUT seconds: TIBRV_TIMEOUT, break
server_TimedDispatch_timeout ==
    srv.queue = <<>> /\ LoopEnd(TRUE, "report")

\* any other status than TIBRV_OK: break
server_TimedDispatch_error ==
    srv.faults /\ LoopEnd(FALSE, "report")

\* After the loop: the count is printed, the objects are destroyed,
\* tibrv_Close(); exit(0).
server_main_exit ==
    /\ srv.pc = "report"
    /\ ServerExit(0)
    /\ UNCHANGED client

ServerMain ==
    \/ server_main_tibrv_Open
    \/ server_main_tibrvTransport_Create
    \/ server_main_CreateListener_search_event
    \/ server_main_CreateListener_request_event
    \/ server_main_tibrvMsg_Create
    \/ server_main_SetReplySubject
    \/ server_searchCallback
    \/ server_requestCallback
    \/ server_TimedDispatch_timeout
    \/ server_TimedDispatch_error
    \/ server_main_exit

ServerNext ==
    \/ ServerMain
    \/ ClientSearch
    \/ ClientRequest

ServerSpec == ServerInit /\ [][ServerNext]_vars

(***************************************************************************)
(* tibrvclient.c: the client without virtual circuit.  main sets up,       *)
(* sends (interval == 0) or creates the pubMsg timer on the default queue, *)
(* and dispatches the default queue until done; the dispatcher thread      *)
(* response_thread serves response_queue (serverResponse and the timeOut   *)
(* timer).                                                                 *)
(*   cli.faults  - library calls may return an error status                *)
(*   cli.replies - the server answers the requests it receives             *)
(*   cli.ids     - the statics that are not TIBRV_INVALID_ID               *)
(*   cli.live    - the handles that exist                                  *)
(***************************************************************************)
\* seconds: the period of the timeOut timer is WAIT_EXIT + interval, the
\* idle timeout of the dispatcher thread is REQUEST_TIMEOUT
WAIT_EXIT == 5

REQUEST_TIMEOUT == 10

\* the intervals tried on the command line: none, a short and a long one
RvIntervals == {0, 1, 6}

TIBRV_OK == "TIBRV_OK"

TIBRV_TIMEOUT == "TIBRV_TIMEOUT"

\* the variables of the other two programs
other_programs ==
    <<requests, interval, status_frq, env, pc, rpc, vc, send_subject,
      reply_subject, live, link, inflight, respQ, wait_queue, exit_status,
      proc, obs, srv>>

\* the statics of tibrvclient.c at their initialisers
RvClientStart ==
    [pc |-> "open_RVMechanisms",
     rpc |-> None,
     return_code |-> TIBRV_OK,
     tibrv_err |-> TIBRV_OK,
     done |-> FALSE,
     responses |-> 0,
     sent |-> 0,
     last_response_count |-> 0,
     ids |-> {},
     live |-> {},
     inflight |-> 0,
     respQ |-> 0,
     \* what an observer has seen: tibrv*_Destroy calls made on each
     \* handle by the function of its kind, tibrvQueue_Destroy called with
     \* the event timeout_id, firings of timeOut, responses when
     \* report_results was called (-1: not called), what main returned
     destroys |-> [h \in {"response_id", "response_thread",
                          "response_queue", "timeout_id", "timer_id"} |-> 0],
     queue_destroy_of_event |-> FALSE,
     firings |-> 0,
     reported |-> -1,
     exit_code |-> None]

RvClientInit ==
    /\ requests = 0
    /\ interval = 0
    /\ status_frq = 0
    /\ env = [faults |-> FALSE, replies |-> FALSE, drops |-> FALSE]
    /\ ClientStart
    /\ srv = ServerOff
    /\ \E n \in 0..MaxRequests, i \in RvIntervals, f, r \in BOOLEAN :
          cli = [requests |-> n, interval |-> i, faults |-> f, replies |-> r]
                   @@ RvClientStart

\* The status a library call may return.
RvStatus == IF cli.faults THEN {TIBRV_OK, "TIBRV_NOT_PERMITTED"} ELSE {TIBRV_OK}

\* the process of tibrvclient.c runs
RvRunning == cli.pc \notin {None, "returned"}

\* if (return_code == TIBRV_OK) return_code = <calls>: the calls create
\* the handles `made` in this order and main goes on to `next`; when one
\* fails those before it were created, and with return_code not TIBRV_OK
\* main falls through to the end of the dispatch loop.
RvSetup(c, here, next, made) ==
    /\ c.pc = here
    /\ \E st \in RvStatus :
          IF st = TIBRV_OK
          THEN cli' = [c EXCEPT !.pc = next,
                                !.ids = @ \cup {made[k] : k \in 1..Len(made)},
                                !.live = @ \cup {made[k] : k \in 1..Len(made)},
                                !.rpc = IF \E k \in 1..Len(made) :
                                              made[k] = "response_thread"
                                        THEN "idle" ELSE @]
          ELSE \E n \in 0..Len(made) :
               cli' = [c EXCEPT !.pc = "loop_end",
                                !.return_code = st,
                                !.ids = @ \cup {made[k] : k \in 1..n},
                                !.live = @ \cup {made[k] : k \in 1..n},
                                !.rpc = IF \E k \in 1..n :
                                              made[k] = "response_thread"
                                        THEN "idle" ELSE @]
    /\ UNCHANGED other_programs

client_open_RVMechanisms ==
    RvSetup(cli, "open_RVMechanisms", "init_server_searching", <<"tibrv">>)

client_init_server_searching ==
    RvSetup(cli, "init_server_searching", "search_for_server",
            <<"transport">>)

client_search_for_server ==
    RvSetup(cli, "search_for_server", "get_server_data", <<>>)

client_get_server_data ==
    RvSetup(cli, "get_server_data", "finish_setup", <<>>)

\* tibrvQueue_Create, tibrvEvent_CreateListener, tibrvDispatcher_CreateEx,
\* tibrvMsg_Create and the calls that fill client_request
client_finish_setup ==
    RvSetup(cli, "finish_setup", "CreateTimer_timeOut",
            <<"response_queue", "response_id", "response_thread",
              "client_request">>)

\* last_response_count = responses; tibrvEvent_CreateTimer(&timeout_id,
\* response_queue, timeOut, WAIT_EXIT + interval), and the test of
\* interval == 0.0
client_main_CreateTimer_timeOut ==
    RvSetup([cli EXCEPT !.last_response_count = cli.responses],
            "CreateTimer_timeOut",
            IF cli.interval = 0 THEN "send_msgs_cont" ELSE "CreateTimer_pubMsg",
            <<"timeout_id">>)

\* tibrvEvent_CreateTimer(&timer_id, TIBRV_DEFAULT_QUEUE, pubMsg, interval)
client_main_CreateTimer_pubMsg ==
    RvSetup(cli, "CreateTimer_pubMsg", "while", <<"timer_id">>)

\* send_msgs_cont, one iteration of for (i = 0; i < requests; i++); i
\* equals sent.  The status of set_msg_data is not looked at (it has set
\* tibrv_err); a failed send ends the loop.
client_send_msgs_cont ==
    /\ cli.pc = "send_msgs_cont"
    /\ cli.sent < cli.requests
    /\ \E data, st \in RvStatus :
          LET c == [cli EXCEPT !.tibrv_err = IF data = TIBRV_OK THEN @
                                             ELSE data]
          IN  cli' = IF st = TIBRV_OK
                     THEN [c EXCEPT !.sent = @ + 1, !.inflight = @ + 1]
                     ELSE [c EXCEPT !.return_code = st, !.pc = "while"]
    /\ UNCHANGED other_programs

\* i == requests: send_msgs_cont returns the status of the last send
client_send_msgs_cont_return ==
    /\ cli.pc = "send_msgs_cont"
    /\ ~(cli.sent < cli.requests)
    /\ cli' = [cli EXCEPT !.pc = "while"]
    /\ UNCHANGED other_programs

\* while (!done && return_code == TIBRV_OK)
\*     if (responses < requests) tibrvQueue_TimedDispatch(...) else break;
client_main_while ==
    /\ cli.pc = "while"
    /\ cli' = [cli EXCEPT !.pc =
                  IF /\ ~cli.done
                     /\ cli.return_code = TIBRV_OK
                     /\ cli.responses < cli.requests
                  THEN "TimedDispatch" ELSE "loop_end"]
    /\ UNCHANGED other_programs

\* tibrvQueue_TimedDispatch(TIBRV_DEFAULT_QUEUE, DISP_TIMEOOUT) dispatches
\* the timer timer_id: pubMsg sends one request when sent < requests and
\* destroys its timer when sent >= requests; a failure is left in
\* tibrv_err.
client_pubMsg ==
    /\ cli.pc = "TimedDispatch"
    /\ "timer_id" \in cli.live
    /\ \E st \in (IF cli.sent < cli.requests THEN RvStatus ELSE {TIBRV_OK}) :
          LET n == IF cli.sent < cli.requests /\ st = TIBRV_OK
                   THEN cli.sent + 1 ELSE cli.sent
              stop == st = TIBRV_OK /\ n >= cli.requests
          IN  cli' = [cli EXCEPT
                         !.pc = "after_dispatch",
                         !.sent = n,
                         !.inflight = @ + (n - cli.sent),
                         !.tibrv_err = IF st = TIBRV_OK THEN @ ELSE st,
                         !.live = IF stop THEN @ \ {"timer_id"} ELSE @,
                         !.destroys["timer_id"] = IF stop THEN @ + 1 ELSE @]
    /\ UNCHANGED other_programs

\* ... or returns TIBRV_TIMEOUT after DISP_TIMEOOUT with nothing dispatched
client_TimedDispatch_timeout ==
    /\ cli.pc = "TimedDispatch"
    /\ cli' = [cli EXCEPT !.pc = "after_dispatch"]
    /\ UNCHANGED other_programs

\* if (tibrv_err != TIBRV_OK) return_code = tibrv_err;
client_main_after_dispatch ==
    /\ cli.pc = "after_dispatch"
    /\ cli' = [cli EXCEPT !.pc = "while",
                          !.return_code = IF cli.tibrv_err # TIBRV_OK
                                          THEN cli.tibrv_err ELSE @]
    /\ UNCHANGED other_programs

\* if (return_code != TIBRV_OK) <error message> else report_results();
client_report_results ==
    /\ cli.pc = "loop_end"
    /\ cli' = [cli EXCEPT !.pc = "Destroy_response_id",
                          !.reported = IF cli.return_code = TIBRV_OK
                                       THEN cli.responses ELSE @]
    /\ UNCHANGED other_programs

\* What a tibrv*_Destroy call on the handle h leaves in the record c.
RvDestroy(c, h) ==
    [c EXCEPT !.live = @ \ {h}, !.destroys[h] = @ + 1]

\* if (h != TIBRV_INVALID_ID) tibrv*_Destroy(h): one statement of main's
\* teardown, made when `test` holds
RvTeardown(here, next, h, test) ==
    /\ cli.pc = here
    /\ cli' = [(IF test THEN RvDestroy(cli, h) ELSE cli) EXCEPT !.pc = next]
    /\ UNCHANGED other_programs

client_main_Destroy_response_id ==
    RvTeardown("Destroy_response_id", "Destroy_timeout_id", "response_id",
               "response_id" \in cli.ids)

\* if (timeout_id != TIBRV_INVALID_ID) tibrvQueue_Destroy(timeout_id): the
\* handle is an event, no queue is destroyed and the timer stays.
client_main_Destroy_timeout_id ==
    /\ cli.pc = "Destroy_timeout_id"
    /\ cli' = [cli EXCEPT !.pc = "Destroy_response_thread",
                          !.queue_destroy_of_event =
                              @ \/ "timeout_id" \in cli.ids]
    /\ UNCHANGED other_programs

client_main_Destroy_response_thread ==
    RvTeardown("Destroy_response_thread", "Destroy_transport",
               "response_thread", "response_thread" \in cli.ids)

\* tibrvTransport_Destroy(transport); tibrv_Close();
client_main_Destroy_transport ==
    /\ cli.pc = "Destroy_transport"
    /\ cli' = [cli EXCEPT !.pc = "return", !.live = {}]
    /\ UNCHANGED other_programs

\* return return_code: the process ends
client_main_return ==
    /\ cli.pc = "return"
    /\ cli' = [cli EXCEPT !.pc = "returned", !.exit_code = cli.return_code]
    /\ UNCHANGED other_programs

\* response_thread dispatches an event of response_queue
RvDispatching ==
    /\ RvRunning
    /\ cli.rpc = "idle"
    /\ {"response_thread", "response_queue"} \subseteq cli.live

\* serverResponse: responses++ and the test responses >= requests
client_serverResponse ==
    /\ RvDispatching
    /\ "response_id" \in cli.live
    /\ cli.respQ > 0
    /\ cli' = [cli EXCEPT !.respQ = @ - 1,
                          !.responses = @ + 1,
                          !.rpc = IF cli.responses + 1 >= cli.requests
                                  THEN "serverResponse_done" ELSE "idle"]
    /\ UNCHANGED other_programs

\* serverResponse, all received: tibrvEvent_Destroy(event);
\* tibrvDispatcher_Destroy(response_thread);
\* tibrvQueue_Destroy(response_queue); done = TIBRV_TRUE;
client_serverResponse_done ==
    /\ RvRunning
    /\ cli.rpc = "serverResponse_done"
    /\ cli' = [RvDestroy(RvDestroy(RvDestroy(cli, "response_id"),
                                   "response_thread"),
                         "response_queue")
                  EXCEPT !.done = TRUE, !.respQ = 0, !.rpc = "idle"]
    /\ UNCHANGED other_programs

\* timeOut, a firing of the timer timeout_id on response_queue; when no
\* response has come since the last firing tibrv_err becomes `err` and
\* done becomes `finish`.
RvTimeOut(err, finish) ==
    /\ RvDispatching
    /\ "timeout_id" \in cli.live
    /\ cli' = IF cli.responses >= cli.requests
              THEN [RvDestroy(cli, "timeout_id") EXCEPT
                       !.done = TRUE, !.firings = @ + 1]
              ELSE IF cli.last_response_count = cli.responses
              THEN [RvDestroy(cli, "timeout_id") EXCEPT
                       !.tibrv_err = err,
                       !.done = @ \/ finish,
                       !.firings = @ + 1]
              ELSE [cli EXCEPT !.last_response_count = cli.responses,
                               !.firings = @ + 1]
    /\ UNCHANGED other_programs

\* mutants: the timeout is not recorded; the timeout sets done
client_timeOut_silent == RvTimeOut(cli.tibrv_err, FALSE)

client_timeOut_done == RvTimeOut(cli.tibrv_err, TRUE)

client_timeOut == RvTimeOut(TIBRV_TIMEOUT, FALSE)

\* The dispatcher thread ends when response_queue has had no event for
\* REQUEST_TIMEOUT seconds (tibrvDispatcher_CreateEx): no response is
\* queued, and the timeOut timer has been destroyed or has a period that
\* is not shorter.  The timer is created right after the thread.
client_response_thread_idle_timeout ==
    /\ RvDispatching
    /\ cli.respQ = 0
    /\ "timeout_id" \in cli.ids
    /\ \/ "timeout_id" \notin cli.live
       \/ WAIT_EXIT + cli.interval >= REQUEST_TIMEOUT
    /\ cli' = [cli EXCEPT !.rpc = "idle_timeout"]
    /\ UNCHANGED other_programs

\* The server answers a request; the reply is queued on response_queue
\* for the listener response_id.
client_ServerReply ==
    /\ RvRunning
    /\ cli.replies
    /\ cli.inflight > 0
    /\ cli' = [cli EXCEPT !.inflight = @ - 1,
                          !.respQ = IF {"response_id", "response_queue"}
                                           \subseteq cli.live
                                    THEN @ + 1 ELSE @]
    /\ UNCHANGED other_programs

RvClientMain ==
    \/ client_open_RVMechanisms
    \/ client_init_server_searching
    \/ client_search_for_server
    \/ client_get_server_data
    \/ client_finish_setup
    \/ client_main_CreateTimer_timeOut
    \/ client_main_CreateTimer_pubMsg
    \/ client_send_msgs_cont
    \/ client_send_msgs_cont_return
    \/ client_main_while
    \/ client_pubMsg
    \/ client_TimedDispatch_timeout
    \/ client_main_after_dispatch
    \/ client_report_results
    \/ client_main_Destroy_response_id
    \/ client_main_Destroy_timeout_id
    \/ client_main_Destroy_response_thread
    \/ client_main_Destroy_transport
    \/ client_main_return

RvClientResponseThread ==
    \/ client_serverResponse
    \/ client_serverResponse_done
    \/ client_timeOut

RvClientNext ==
    \/ RvClientMain
    \/ RvClientResponseThread
    \/ client_response_thread_idle_timeout
    \/ client_ServerReply

RvClientSpec == RvClientInit /\ [][RvClientNext]_vars

\* The scheduler runs both threads, and the timers keep firing.
RvClientFairSpec ==
    /\ RvClientInit
    /\ [][RvClientNext]_vars
    /\ WF_vars(RvClientMain)
    /\ WF_vars(RvClientResponseThread)

(***************************************************************************)
(* Properties.                                                             *)
(***************************************************************************)
\* a thread has called exit()
Exited == proc.exitCalls > 0

\* no step is possible any more
Stuck == ~ENABLED Next

\* C1: the completion sentinel (TEST.COMPLETED, published by allDone) is
\* sent at most once in a run, counting the sends of serverResponse and of
\* disconnectedVcCallback together.
C1_SentinelAtMostOnce ==
    obs.sentinel_sr + obs.sentinel_disc <= 1

\* C2: once vc_state is disconnected, tibrvTransport_Send is never called
\* on vc_transport again.
C2_NoSendAfterDisconnect ==
    [][vc.vc_state = "disconnected" => obs'.vc_sends = obs.vc_sends]_vars

\* C3: with requests = 0 and a setup that succeeds, the run does not come to
\* rest before main has passed the wait and reported, and it sends nothing.
C3_ZeroRequestsCompletes ==
    (requests = 0 /\ ~obs.setup_failed /\ Stuck)
        => (obs.reports = 1 /\ proc.terminated /\ obs.vc_sends = 0)

\* C4: with a server that never replies, no disconnect and no failing call,
\* the run does not come to rest before the process has exited, after all
\* requests were sent, with msgs_in < requests and a non-zero exit code.
C4_NoReplyTimesOut ==
    (requests >= 1 /\ ~env.replies /\ ~env.drops /\ ~env.faults /\ Stuck)
        => /\ proc.terminated
           /\ proc.exit_code # 0
           /\ vc.msgs_out = requests
           /\ vc.msgs_in < requests

\* a burst run with a replying server, no disconnect and no failing call
C5_BurstRun ==
    interval = 0 /\ requests >= 1 /\ env.replies /\ ~env.drops /\ ~env.faults

\* C5: in burst mode with requests >= 1, a server that answers every
\* request once, no disconnect, no failing call and fair scheduling, the
\* process eventually ends with msgs_out = msgs_in = requests and exit
\* status 0.
C5_BurstCompletes ==
    C5_BurstRun ~> (/\ proc.terminated
                    /\ proc.exit_code = 0
                    /\ vc.msgs_out = requests
                    /\ vc.msgs_in = requests)

C5_Witness ==
    /\ C5_BurstRun
    /\ requests = MaxRequests
    /\ proc.terminated
    /\ proc.exit_code = 0
    /\ obs.sentinel_sr = 1

\* C6: when the process exits with status 0, msgs_out = requests and
\* msgs_in = requests held already when tibrvQueue_Dispatch(wait_queue)
\* returned to main.
C6_SuccessHadCountsAtUnblock ==
    (Exited /\ proc.exit_code = 0)
        => (obs.unblocked.msgs_out = requests /\ obs.unblocked.msgs_in = requests)

\* C7: a run in which disconnectedVcCallback has run exits with a non-zero
\* status.
C7_DisconnectExitsNonZero ==
    (obs.monitor_fired /\ Exited) => proc.exit_code # 0

\* C8: the report prints the rate, and the process exits with status 0,
\* exactly when msgs_in >= requests as the report reads it; every other
\* report prints the counts only and leads to a non-zero exit status; a run
\* in which a setup call failed exits non-zero.
C8_ReportDecidesExit ==
    /\ obs.reports > 0 =>
          /\ obs.rate_printed <=> (obs.report_in >= requests)
          /\ (exit_status = 0) <=> obs.rate_printed
    /\ Exited =>
          (proc.exit_code = 0 <=> (obs.reports > 0 /\ obs.report_in >= requests))
    /\ (Exited /\ obs.setup_failed) => proc.exit_code # 0

C8_Witness ==
    /\ proc.terminated
    /\ proc.exit_code = 0
    /\ obs.rate_printed
    /\ obs.report_in = requests
    /\ requests >= 1

\* completion was triggered by both paths
C9_BothTriggered ==
    obs.sentinel_sr >= 1 /\ obs.sentinel_disc >= 1

\* C9: when serverResponse and disconnectedVcCallback have both called
\* allDone in a run, the report is printed at most once and exit() is
\* called at most once, and when the process has ended each happened
\* exactly once.
C9_ReportOnceExitOnce ==
    C9_BothTriggered =>
        /\ obs.reports <= 1
        /\ proc.exitCalls <= 1
        /\ proc.terminated => (obs.reports = 1 /\ proc.exitCalls = 1)

C9_Witness ==
    C9_BothTriggered /\ proc.terminated /\ obs.reports = 1

CollectorTested == rpc # "serverResponse_tests"

\* C11: serverResponse calls allDone at most once in a run, and it does so
\* in the invocation that counts response number `requests`, in no earlier
\* one, whatever the generator has counted by then.
C11_CollectorTriggersOnceAtTarget ==
    /\ obs.sr_allDone \in {<<>>, <<requests>>}
    /\ obs.sentinel_sr <= Len(obs.sr_allDone)
    /\ (vc.msgs_in > 0 /\ vc.msgs_in >= requests /\ CollectorTested)
            => obs.sr_allDone = <<requests>>

\* allDone called by serverResponse while the burst loop has not yet
\* counted its last request
C11_Witness ==
    /\ obs.sr_allDone = <<requests>>
    /\ obs.sentinel_sr = 1
    /\ pc = "burst_count"
    /\ vc.msgs_out < requests

\* the positive multiples of f up to n, in increasing order
Multiples(f, n) == [i \in 1..(n \div f) |-> i * f]

Positive(seq) == SelectSeq(seq, LAMBDA x : x > 0)

Range(seq) == {seq[i] : i \in 1..Len(seq)}

\* the received counts serverResponse has run its status test for
Tested == {m \in 1..vc.msgs_in : m < vc.msgs_in \/ CollectorTested}

\* C13 (as stated): with status_frq > 0 the collector prints a status line
\* for every received count that is a multiple of status_frq, also for the
\* multiples reached while requests are still being sent.
C13_CollectorLineForEveryMultiple ==
    status_frq > 0 =>
        \A m \in Tested : StatusDue(m) => m \in Range(obs.col_status)

\* C13 (amended): the collector's status lines are for multiples of
\* status_frq only, one line at most per multiple and in increasing order,
\* and none for a count that serverResponse handled before msgs_out reached
\* requests; every multiple counted after that has its line.
C13_CollectorStatusLines ==
    /\ \A i \in 1..Len(obs.col_status) :
          /\ StatusDue(obs.col_status[i])
          /\ obs.col_status[i] \in 1..vc.msgs_in
          /\ obs.in_when_sent # -1
          /\ obs.col_status[i] >= obs.in_when_sent
          /\ \A j \in 1..(i - 1) : obs.col_status[j] < obs.col_status[i]
    /\ \A m \in Tested :
          (StatusDue(m) /\ obs.in_when_sent # -1 /\ m > obs.in_when_sent)
              => m \in Range(obs.col_status)

\* a multiple counted while requests were still being sent got no line and
\* a later one got its line
C13_Witness ==
    /\ status_frq = 1
    /\ obs.in_when_sent = 1
    /\ obs.col_status = <<2, 3>>
\* tibrvQueue_Dispatch(wait_queue) has returned in main
Unblocked == obs.unblocked.msgs_in # -1

\* C14 (as stated): main leaves its wait on wait_queue only when the
\* sentinel has been dispatched to testcompletedCB.
C14_LeavesWaitOnSentinelOnly ==
    Unblocked => obs.dispatched = <<"sentinel">>

\* C14 (amended): main goes on to the report only after
\* tibrvQueue_Dispatch(wait_queue) has dispatched one event, the sentinel
\* (sent before by allDone) or the disconnect advisory; until then nothing
\* is reported.
C14_LeavesWaitOnOneEvent ==
    /\ obs.reports > 0 => Unblocked
    /\ Unblocked <=> (pc \notin {"wait", "allDone_SetSendSubject", "allDone_Send"}
                       /\ obs.dispatched # <<>>)
    /\ obs.dispatched \in {<<>>, <<"sentinel">>, <<"advisory">>}
    /\ obs.dispatched = <<"sentinel">> => obs.sentinel_sr > 0
    /\ pc = "wait" => obs.dispatched = <<>>

\* main has reported after the advisory, no sentinel having been received
C14_Witness ==
    /\ obs.reports = 1
    /\ obs.dispatched = <<"advisory">>
    /\ obs.sentinel_sr = 0

\* C15 (as stated): once disconnectedVcCallback has been dispatched,
\* vc_state is disconnected, allDone is called, and the run does not end
\* before main has printed the report.
C15_DisconnectLeadsToReport ==
    obs.monitor_fired =>
        /\ vc.vc_state = "disconnected"
        /\ pc = "report" => obs.sentinel_disc = 1
        /\ Stuck => obs.reports = 1

\* C16 (as stated): in a run with a disconnect the counts printed by the
\* report are the counts disconnectedVcCallback logged.
C16_ReportShowsCountsAtDisconnect ==
    (obs.monitor_fired /\ obs.reports > 0)
        => obs.reported = obs.at_disconnect
\* C17: vc_state never leaves disconnected and never becomes connected
\* again: its only changes are the one to initializing when the record is
\* made and, after that, one change to disconnected.
C17_StateOnlyMovesToDisconnected ==
    [][/\ vc.vc_state = "disconnected" => vc'.vc_state = "disconnected"
       /\ vc'.vc_state # vc.vc_state =>
              \/ vc.vc_state = None /\ vc'.vc_state = "initializing"
              \/ vc.vc_state = "initializing" /\ vc'.vc_state = "disconnected"]_vars

\* the run has gone on to its end after the change to disconnected
C17_Witness ==
    /\ vc.vc_state = "disconnected"
    /\ vc.msgs_in > obs.at_disconnect.msgs_in
    /\ proc.terminated

\* C18: when tibrvTransport_SendRequest fails the client calls exit(1)
\* without calling tibrvTransport_CreateConnectVc; a run sends at most one
\* discovery request.
C18_DiscoveryFailureExits ==
    /\ obs.discovery.sent <= 1
    /\ obs.discovery.failed =>
          /\ obs.vc_attempts = 0
          /\ "vc_transport" \notin live
          /\ pc = "in_exit"
          /\ proc.exitCalls = 1
          /\ proc.exit_code = 1

\* the process has ended after a failed discovery
C18_Witness ==
    /\ obs.discovery.failed
    /\ proc.terminated
    /\ proc.exit_code = 1

\* C19: when tibrvTransport_WaitForVcConnection fails the client calls
\* exit(1): no response listener is created, the response dispatcher is not
\* started and no request is sent.
C19_ConnectFailureExits ==
    obs.wait_failed =>
        /\ "vc_msg_event" \notin live
        /\ rpc = None
        /\ obs.vc_sends = 0
        /\ vc.msgs_out = 0
        /\ pc = "in_exit"
        /\ proc.exitCalls = 1
        /\ proc.exit_code = 1

\* the process has ended after a failed wait on a circuit that had been
\* created
C19_Witness ==
    /\ obs.wait_failed
    /\ "vc_transport" \in live
    /\ proc.terminated
    /\ proc.exit_code = 1

\* a send on vc_transport has failed
SendFailed == obs.send_fail.sends # -1

\* C20: in burst mode the first failed send on the circuit is the last
\* send of the run; the request is not counted and main calls exit(1).
C20_BurstSendFailureAborts ==
    (interval = 0 /\ SendFailed) =>
        /\ obs.vc_sends = obs.send_fail.sends
        /\ vc.msgs_out = obs.send_fail.msgs_out
        /\ vc.msgs_out < requests
        /\ pc = "in_exit"
        /\ proc.exitCalls = 1
        /\ proc.exit_code = 1

\* the third send of a burst has failed and the process has ended
C20_Witness ==
    /\ interval = 0
    /\ obs.send_fail = [sends |-> 3, msgs_out |-> 2]
    /\ proc.terminated
    /\ proc.exit_code = 1
\* the sends on vc_transport that returned TIBRV_OK
SendsOk == obs.vc_sends - (IF SendFailed THEN 1 ELSE 0)

\* what every firing of the timer callback keeps true in paced mode: one
\* send at most per firing that finds msgs_out < requests, none in the
\* others, and the timer destroyed by the firing that leaves msgs_out at
\* requests
PacedFirings ==
    /\ obs.vc_sends <= obs.timer.fires - obs.timer.idle
    /\ rpc # "in_exit" => obs.vc_sends = obs.timer.fires - obs.timer.idle
    /\ SendsOk = vc.msgs_out
    /\ vc.msgs_out <= requests
    /\ obs.timer.cancelled <=> (obs.timer.fires > 0 /\ vc.msgs_out = requests)
    /\ obs.timer.cancelled => "timer_event" \notin live

C22_RepliesGoToResponseSubject ==
    obs.vc_replyto \subseteq {RESPONSE_SUBJECT}

\* three requests have been sent and answered
C22_Witness ==
    /\ obs.vc_replyto = {RESPONSE_SUBJECT}
    /\ obs.vc_sends = 3
    /\ vc.msgs_in = 3
\* s - y on tibrv_u32, by borrow
Sub32(a, b) ==
    LET borrow == IF a.lo < b.lo THEN 1 ELSE 0
    IN  U32((a.hi - b.hi - borrow + Half) % Half, (a.lo - b.lo + Half) % Half)

\* s = (x + y) mod 2^32 for s, x, y below 2^32
IsSumMod32(s, x, y) ==
    /\ s.hi \in 0..(Half - 1)
    /\ s.lo \in 0..(Half - 1)
    /\ Sub32(s, y) = x

\* C23: the reply to a request carries sum = (x + y) mod 2^32, and
\* requestCallback sends one reply for each request dispatched to it, in
\* either reply mode; a request is without its reply only when the
\* callback has ended the process with exit(1).
C23_ReplyCarriesSum ==
    /\ \A i \in 1..Len(srv.replies) :
          IsSumMod32(srv.replies[i].sum, srv.handled[i].x, srv.handled[i].y)
    /\ Len(srv.replies) <= Len(srv.handled)
    /\ Len(srv.replies) < Len(srv.handled) =>
          /\ Len(srv.handled) = Len(srv.replies) + 1
          /\ srv.pc = "terminated"
          /\ srv.exit_code = 1
    /\ srv.requests <= Len(srv.replies)
    /\ srv.exit_code # 1 => srv.requests = Len(srv.handled)

\* two requests answered, the sum of one of them wrapping around 2^32
C23_Witness ==
    /\ Len(srv.replies) = 2
    /\ srv.requests = 2
    /\ srv.handled[1] = [x |-> U32(Half - 1, Half - 1), y |-> U32(0, 1)]
    /\ srv.replies[1].sum = U32(0, 0)
    /\ srv.handled[2] = [x |-> U32(0, Half - 1), y |-> U32(0, 1)]
    /\ srv.replies[2].sum = U32(1, 0)

\* C24 (as stated): the server ends with a non-zero exit code when a
\* timed dispatch has returned TIBRV_TIMEOUT.
C24_IdleTimeoutExitsNonZero ==
    (srv.timed_out /\ srv.pc = "terminated") => srv.exit_code # 0

\* C25: the first non-OK return of tibrvQueue_TimedDispatch ends the loop:
\* there is no second call and no event is dispatched afterwards; the loop
\* is left in no other way, and while it runs a queued event can be
\* dispatched.
C25_LoopEndsAtFirstNonOk ==
    /\ srv.nonok <= 1
    /\ srv.nonok = 1 => (srv.pc \in {"report", "terminated"}
                         /\ srv.after_stop = 0)
    /\ srv.pc = "report" => srv.nonok = 1
    /\ srv.exit_code = 0 => srv.nonok = 1
    /\ (srv.pc = "TimedDispatch" /\ srv.queue # <<>>) =>
          (srv.nonok = 0
           /\ ENABLED (server_searchCallback \/ server_requestCallback))

\* the loop has ended by a timeout after serving two requests and left
\* nothing undone
C25_Witness ==
    /\ srv.timed_out
    /\ srv.requests = 2
    /\ srv.pc = "terminated"
\* main waits in tibrvQueue_Dispatch and the advisory is the oldest event
\* of wait_queue
AdvisoryDue ==
    /\ Running
    /\ pc = "wait"
    /\ wait_queue # <<>>
    /\ Head(wait_queue) = "advisory"

\* C26: when main waits on wait_queue and the disconnect advisory is its
\* oldest event, disconnectedVcCallback can run at once, whatever number
\* of responses is queued for serverResponse and wherever the response
\* dispatcher thread is.
C26_MonitorNotBehindResponses ==
    AdvisoryDue => ENABLED disconnectedVcCallback

\* the callback has just run with two responses queued and serverResponse
\* in the middle of a third
C26_Witness ==
    /\ pc = "allDone_SetSendSubject"
    /\ obs.dispatched = <<"advisory">>
    /\ respQ = 2
    /\ rpc = "serverResponse_tests"

\* the one thread that counts requests in this run
Generator == IF interval = 0 THEN "main" ELSE "response_thread"

\* C27: msgs_in and msgs_out change by steps of +1 only; msgs_in is
\* written by the response dispatcher thread only and is the number of
\* invocations of serverResponse; msgs_out is written by the generator's
\* thread only and is the number of successful sends, the one being
\* counted apart.
C27_CountersCountEveryEvent ==
    /\ [](/\ obs.writers.msgs_in \subseteq {"response_thread"}
          /\ obs.writers.msgs_out \subseteq {Generator}
          /\ vc.msgs_in = obs.sr_calls
          /\ vc.msgs_out = SendsOk - (IF pc = "burst_count" THEN 1 ELSE 0))
    /\ [][/\ vc'.msgs_in \in {vc.msgs_in, vc.msgs_in + 1}
          /\ vc'.msgs_out \in {vc.msgs_out, vc.msgs_out + 1}]_vars

\* both threads have counted, up to the end of a burst run
C27_Witness ==
    /\ obs.writers = [msgs_in |-> {"response_thread"}, msgs_out |-> {"main"}]
    /\ vc.msgs_in = 3
    /\ vc.msgs_out = 3
    /\ proc.terminated

\* the listeners and the thread that the run of the test relies on
Listening ==
    {"vc_msg_event", "wait_event", "vc_disconnect_event", "response_thread"}

\* C28: the three listeners and the response dispatcher thread have been
\* created when the first request is sent, no response is counted before
\* a request was sent, and main waits on wait_queue only after the burst
\* loop has ended or the timer has been created.
C28_ListenersBeforeFirstRequest ==
    /\ obs.vc_sends > 0 => Listening \subseteq obs.first_send_made
    /\ obs.sr_calls > 0 => obs.vc_sends > 0
    /\ pc = "wait" =>
          IF interval = 0 THEN vc.msgs_out = requests
          ELSE "timer_event" \in live \/ obs.timer.cancelled

\* main waits while the timer callback has sent a first request
C28_Witness ==
    /\ pc = "wait"
    /\ obs.vc_sends = 1
    /\ Listening \subseteq obs.first_send_made
    /\ respQ = 1

\* C29: tibrvTransport_Destroy(vc->vc_transport) is called by main only,
\* once in every run that gets past that statement of the teardown and
\* not at all before.
C29_VcTransportDestroyedOnce ==
    /\ obs.vc_destroys \in {<<>>, <<"main">>}
    /\ obs.vc_destroys = <<"main">> <=>
          /\ obs.reports = 1
          /\ pc \notin {"Destroy_vc_msg_event", "Destroy_vc_disconnect_event",
                         "Destroy_vc_transport"}
    /\ obs.vc_destroys = <<"main">> => "vc_transport" \notin live

\* a run has gone through its teardown to the end of the process
C29_Witness ==
    /\ obs.vc_destroys = <<"main">>
    /\ obs.vc_attempts = 1
    /\ pc = "in_exit"
    /\ proc.terminated

\* C30 (as stated): every message sent on vc_transport has the send
\* subject REQUEST_SUBJECT.
C30_VcSendsHaveRequestSubject ==
    obs.vc_subjects \subseteq {REQUEST_SUBJECT}

\* C31 (as stated): once main has destroyed vc_transport no callback of the
\* response dispatcher thread sends on it, and serverResponse is not
\* invoked once main has destroyed vc_msg_event.
C31_NoUseAfterDestroy ==
    [][/\ obs'.vc_sends > obs.vc_sends => obs.vc_destroys = <<>>
       /\ obs'.sr_calls > obs.sr_calls => "vc_msg_event" \in live]_vars

\* C32: in burst mode disconnectedVcCallback runs only when main has left
\* its send loop, so vc_state = disconnected implies msgs_out = requests.
C32_BurstDisconnectAfterLoop ==
    interval = 0 =>
        /\ vc.vc_state = "disconnected" => vc.msgs_out = requests
        /\ obs.monitor_fired => /\ pc \notin {"burst", "burst_count"}
                                /\ obs.at_disconnect.msgs_out = requests
        /\ ENABLED disconnectedVcCallback => vc.msgs_out = requests

\* the circuit was lost during the loop and the callback ran after it
C32_Witness ==
    /\ interval = 0
    /\ requests = 3
    /\ vc.vc_state = "disconnected"
    /\ obs.at_disconnect = [msgs_in |-> 1, msgs_out |-> 3]
    /\ obs.send_fail.sends = -1

\* C33: msgs_out never exceeds requests, in burst and in paced mode, and
\* counts sends on vc_transport that returned TIBRV_OK only: it is never
\* ahead of their number, and behind it by the one send main is counting.
C33_SentAtMostRequested ==
    /\ vc.msgs_out <= requests
    /\ SendsOk <= requests
    /\ vc.msgs_out <= SendsOk
    /\ SendsOk - vc.msgs_out = (IF pc = "burst_count" THEN 1 ELSE 0)
    /\ SendFailed => obs.send_fail.msgs_out = obs.send_fail.sends - 1

\* a paced run whose third send failed after two were counted
C33_Witness ==
    /\ interval = 1
    /\ requests = 3
    /\ vc.msgs_out = 2
    /\ obs.vc_sends = 3
    /\ SendFailed

\* C34 (as stated): once the record exists vc_state is initializing or
\* disconnected, and every request is sent while it is initializing.
C34_SendsWhileInitializing ==
    /\ vc.vc_state \in {None, "initializing", "disconnected"}
    /\ vc.vc_state = None => obs.created \subseteq {"tibrv", "transport"}
    /\ obs.late_sends = 0

\* C38 (as stated): when tibrvTransport_CreateConnectVc has failed,
\* createServerConnection does not return TIBRV_OK: main calls exit(1)
\* and creates no listener.
C38_CreateFailurePropagated ==
    (obs.vc_attempts = 1 /\ link = None) =>
        \/ pc = "WaitForVcConnection"
        \/ /\ pc = "in_exit"
           /\ obs.wait_failed
           /\ "vc_msg_event" \notin obs.created

\* the test of tibrvclient.c has started: the timeOut timer exists
RvStarted == "timeout_id" \in cli.ids

\* the dispatcher thread has ended idle and left the timeOut timer behind
RvTimerStopped == cli.rpc = "idle_timeout" /\ "timeout_id" \in cli.live

\* all responses are in, or main has ended in the error path
RvOutcome ==
    \/ cli.responses >= cli.requests
    \/ /\ cli.return_code # TIBRV_OK
       /\ cli.reported = -1

C37_RvNoDoubleDestroy ==
    cli.pc # None =>
        \A h \in DOMAIN cli.destroys : cli.destroys[h] <= 1
====
